---------------------------- MODULE Spec2Model ----------------------------
(***************************************************************************)
(* The quantamental dashboard's real-time feed:                            *)
(*                                                                         *)
(*   - StockDataStore  (src/src/stores/StockDataStore.ts, lines 1-122):    *)
(*     the stocks map, the module-level batching state (updateQueue,       *)
(*     rafId) and the requestAnimationFrame flush;                         *)
(*   - WebSocketStore  (same file, lines 124-260): the connection manager  *)
(*     with its sockets, their event handlers and the reconnect timers.    *)
(*                                                                         *)
(*   - the server (the code after line 216 of                               *)
(*     src/src/stores/__tests__/StockDataStore.test.ts) with its sessions,  *)
(*     broadcastUpdate and the MarketSimulator (src/unnamed/part_006).      *)
(*                                                                         *)
(* The functions resetStockDataStore and resetWebSocketStore are test      *)
(* fixtures that re-establish the initial state; they are not actions.     *)
(***************************************************************************)
EXTENDS Integers, Sequences, FiniteSets, TLC

VARIABLES
    \* ---- StockDataStore ----
    stocks,         \* Map<string, StockData>: a function from its key set
    lastUpdated,    \* number | null
    updateQueue,    \* module-level StockUpdate[]
    rafId,          \* module-level handle of the scheduled flush, or NULL
    rafCallbacks,   \* host: handles of the frame callbacks not yet run
    now,            \* host: the value Date.now() returns
    batches,        \* history: the arguments of the updateStocks calls since the last flush
    \* ---- WebSocketStore ----
    ws,             \* WebSocket | null: a socket id or NULL
    status,         \* ConnectionStatus
    reconnectAttempts,
    shouldReconnect,
    sockets,        \* host: readyState of every socket created by connect()
    urls,           \* host: the url of every socket that is not closed
    timers,         \* host: pending setTimeout callbacks of onclose, in creation order
                    \* (remaining: ms to the deadline; url: the url of the connect()
                    \* call the callback closes over; stale: history, a
                    \* disconnect() was called since the timer was set)
    \* ---- history of the last step ----
    lastOp,         \* name of the last operation or event
    lastArg,        \* argument of the last setStocks / updateStocksImmediate call;
                    \* after onmessage: <<socket, payload kind, whether the step before
                    \* dropped a message of the same socket>>
    lastInfo,       \* what the last store operation met (see Info)
    manual,         \* TRUE from a disconnect() call until the caller's next connect()
    sinceClose,     \* observation window opened by an unexpected close with 0 attempts
    \* ---- server ----
    serverStocks,   \* the server's stocks array (the entity store)
    updatePercentage, \* config.updatePercentage of the MarketSimulator, in tenths
    clients,        \* sessions: readyState ("ABSENT": not in wss.clients), isAlive and,
                    \* as history, the type of the first message sent to it and
                    \* whether it was pinged and has sent no pong since
    marketSimulator, \* "null", or "running" while its interval timer is set
    lastSend,       \* history: the message of the last step, the sampled indices,
                    \* the sessions it was sent to and those whose send threw
    intervalId,     \* MarketSimulator.intervalId: a timer handle or NULL
    intervals,      \* host: handles of the interval timers set and not cleared
    lastBeat,       \* history: the sessions the last heartbeat terminated / pinged
    \* ---- generateStocks (src/src/server/dataGenerator.ts) ----
    genArg,         \* the argument of the call: a count or NoCount
    genI,           \* the loop variable i
    generated,      \* the stocks array being built
    existingSymbols \* the Set of the symbols handed out

storeVars == <<stocks, lastUpdated, updateQueue, rafId, rafCallbacks, now, batches>>
connVars  == <<ws, status, reconnectAttempts, shouldReconnect, sockets, urls, timers>>
histVars  == <<lastOp, lastArg, lastInfo, manual, sinceClose>>
simVars   == <<intervalId, intervals>>
genVars   == <<genArg, genI, generated, existingSymbols>>
serverVars == <<serverStocks, updatePercentage, clients, marketSimulator, lastSend,
                simVars, lastBeat, genVars>>
vars      == <<storeVars, connVars, histVars, serverVars>>

NULL == 0

--------------------------------------------------------------------------
(* Bounds of the model *)

MaxQueue == 2       \* deltas held in updateQueue
MaxCalls == 2       \* updateStocks calls between two flushes
MaxSnapshot == 2    \* entities in one setStocks argument
MaxSockets == 2     \* sockets that are not closed at the same time
MaxTimers == 2      \* reconnect timers pending at the same time
MaxAttempts == 5    \* largest value of reconnectAttempts
MaxSessions == 2    \* sessions in wss.clients at the same time
MaxCount == 4       \* entities one generateStocks call is followed through

--------------------------------------------------------------------------
(* Data: StockData and StockUpdate (src/src/types/Stock.ts) *)

Symbols == {"A", "B"}
Prices  == {10, 20}
Volumes == {100, 200}
Times   == {1, 2}       \* the values Date.now() takes, in order

NameOf(s) == s \o " Corp"

\* StockData restricted to one identity field (name) and two of the
\* fast-changing fields (price, volume): the entities a store can hold.
StockData ==
    { [symbol |-> s, name |-> NameOf(s), price |-> p, volume |-> v] :
        s \in Symbols, p \in Prices, v \in Volumes }

\* The entities offered to setStocks: the smallest price and volume, so
\* that a value written by an update differs from the snapshot's.
SnapshotData ==
    { e \in StockData : \A p \in Prices, v \in Volumes : e.price <= p /\ e.volume <= v }

\* StockUpdate: the symbol plus some of the optional fields: a price, the
\* largest volume, or the largest of both.
StockUpdate ==
    LET top(S) == { x \in S : \A y \in S : y <= x } IN
    { [symbol |-> s, price |-> p] : s \in Symbols, p \in Prices }
    \cup { [symbol |-> s, volume |-> v] : s \in Symbols, v \in top(Volumes) }
    \cup { [symbol |-> s, price |-> p, volume |-> v] :
             s \in Symbols, p \in top(Prices), v \in top(Volumes) }

SeqsUpTo(S, n) == UNION { [1..k -> S] : k \in 0..n }

Snapshots == SeqsUpTo(SnapshotData, MaxSnapshot)
\* The argument of one updateStocks / updateStocksImmediate call: no update
\* or one; longer arguments build up in updateQueue call by call.
UpdateBatches == {<<>>} \cup { <<u>> : u \in StockUpdate }

--------------------------------------------------------------------------
(* StockDataStore *)

replaceEntity(existing, update) == update

\* { ...existing, ...update }: every own field of update overrides existing.
spreadMerge(existing, update) ==
    [f \in (DOMAIN existing) \cup (DOMAIN update) |->
        IF f \in DOMAIN update THEN update[f] ELSE existing[f]]

\* Map.set(key, value) on a map held as a function.
mapSet(m, key, value) ==
    [k \in (DOMAIN m) \cup {key} |-> IF k = key THEN value ELSE m[k]]

upsertUpdate(newStocks, update) ==
    mapSet(newStocks, update.symbol,
           IF update.symbol \in DOMAIN newStocks
           THEN spreadMerge(newStocks[update.symbol], update)
           ELSE update)

\* Body of the for-loop of updateStocksImmediate for one update.
applyUpdate(newStocks, update) ==
    IF update.symbol \in DOMAIN newStocks
    THEN mapSet(newStocks, update.symbol,
                spreadMerge(newStocks[update.symbol], update))
    ELSE newStocks

\* The for-loop of updateStocksImmediate over the whole argument.
RECURSIVE mergeUpdates(_, _)
mergeUpdates(newStocks, updates) ==
    IF updates = <<>> THEN newStocks
    ELSE mergeUpdates(applyUpdate(newStocks, Head(updates)), Tail(updates))

\* The for-loop of setStocks: stockMap.set(stock.symbol, stock) in order.
RECURSIVE buildStockMap(_, _)
buildStockMap(stockMap, list) ==
    IF list = <<>> THEN stockMap
    ELSE buildStockMap(mapSet(stockMap, Head(list).symbol, Head(list)), Tail(list))

EmptyMap == [k \in {} |-> NULL]

\* null as an element of an updates array
JsNull == [null |-> TRUE]

\* The for-loop of updateStocksImmediate throws a TypeError: an element is
\* null, so that reading update.symbol fails.
throwsOn(updates) == \E i \in 1..Len(updates) : updates[i] = JsNull

currentStockMap == stocks

\* new Map<string, StockData>() of setStocks
newStockMap == EmptyMap

unshiftAll(queue, updates) == updates \o queue

\* updateQueue.push(...updates)
pushAll(queue, updates) == queue \o updates

\* History of one store operation: the number of updateStocks calls a flush
\* served, whether an update named a symbol the store holds / does not hold,
\* whether a snapshot dropped a symbol the store held, and whether the
\* operation has passed a newly built Map to set().
Info(calls, updates, dropped) ==
    [calls   |-> calls,
     known   |-> \E i \in 1..Len(updates) : updates[i].symbol \in DOMAIN stocks,
     unknown |-> \E i \in 1..Len(updates) : updates[i].symbol \notin DOMAIN stocks,
     dropped |-> dropped,
     published |-> TRUE]
NoInfo == [calls |-> 0, known |-> FALSE, unknown |-> FALSE, dropped |-> FALSE,
           published |-> FALSE]

setStocksClearsQueue(list) ==
    /\ stocks' = buildStockMap(newStockMap, list)
    /\ lastUpdated' = now
    /\ updateQueue' = <<>>
    /\ batches' = <<>>
    /\ lastOp' = "setStocks"
    /\ lastArg' = list
    /\ UNCHANGED serverVars
    /\ lastInfo' = Info(0, <<>>, (DOMAIN stocks) \ (DOMAIN stocks') # {})
    /\ UNCHANGED <<rafId, rafCallbacks, now>>
    /\ UNCHANGED <<connVars, manual, sinceClose>>

setStocks(list) ==
    /\ stocks' = buildStockMap(newStockMap, list)
    /\ lastUpdated' = now
    /\ lastOp' = "setStocks"
    /\ lastArg' = list
    /\ UNCHANGED serverVars
    /\ lastInfo' = Info(0, <<>>, (DOMAIN stocks) \ (DOMAIN stocks') # {})
    /\ UNCHANGED <<updateQueue, rafId, rafCallbacks, now, batches>>
    /\ UNCHANGED <<connVars, manual, sinceClose>>

updateStocksImmediateSkipsNoop(updates) ==
    /\ stocks' = mergeUpdates(stocks, updates)
    /\ lastUpdated' = IF stocks' = stocks THEN lastUpdated ELSE now
    /\ lastOp' = "updateStocksImmediate"
    /\ lastArg' = updates
    /\ UNCHANGED serverVars
    /\ lastInfo' = IF stocks' = stocks THEN [Info(0, updates, FALSE) EXCEPT !.published = FALSE]
                   ELSE Info(0, updates, FALSE)
    /\ UNCHANGED <<updateQueue, rafId, rafCallbacks, now, batches>>
    /\ UNCHANGED <<connVars, manual, sinceClose>>

updateStocksImmediateKeepsStamp(updates) ==
    /\ stocks' = mergeUpdates(stocks, updates)
    /\ lastUpdated' = IF lastUpdated = NULL THEN now ELSE lastUpdated
    /\ lastOp' = "updateStocksImmediate"
    /\ lastArg' = updates
    /\ UNCHANGED serverVars
    /\ lastInfo' = Info(0, updates, FALSE)
    /\ UNCHANGED <<updateQueue, rafId, rafCallbacks, now, batches>>
    /\ UNCHANGED <<connVars, manual, sinceClose>>

updateStocksImmediate(updates) ==
    /\ stocks' = mergeUpdates(stocks, updates)
    /\ lastUpdated' = now
    /\ lastOp' = "updateStocksImmediate"
    /\ lastArg' = updates
    /\ UNCHANGED serverVars
    /\ lastInfo' = Info(0, updates, FALSE)
    /\ UNCHANGED <<updateQueue, rafId, rafCallbacks, now, batches>>
    /\ UNCHANGED <<connVars, manual, sinceClose>>

\* requestAnimationFrame(cb): the host hands out a handle not in use.
newHandle == CHOOSE h \in 1..(Cardinality(rafCallbacks) + 1) : h \notin rafCallbacks

updateStocksAlwaysSchedules(updates) ==
    /\ Len(updateQueue) + Len(updates) <= MaxQueue
    /\ Len(batches) < MaxCalls
    /\ updateQueue' = pushAll(updateQueue, updates)
    /\ rafId' = newHandle
    /\ rafCallbacks' = rafCallbacks \cup {newHandle}
    /\ batches' = Append(batches, updates)
    /\ lastOp' = "updateStocks"
    /\ lastArg' = <<>>
    /\ UNCHANGED serverVars
    /\ lastInfo' = NoInfo
    /\ UNCHANGED <<stocks, lastUpdated, now>>
    /\ UNCHANGED <<connVars, manual, sinceClose>>

updateStocks(updates) ==
    /\ Len(updateQueue) + Len(updates) <= MaxQueue
    /\ Len(batches) < MaxCalls
    /\ updateQueue' = pushAll(updateQueue, updates)
    /\ IF rafId = NULL
       THEN /\ rafId' = newHandle
            /\ rafCallbacks' = rafCallbacks \cup {newHandle}
       ELSE UNCHANGED <<rafId, rafCallbacks>>
    /\ batches' = Append(batches, updates)
    /\ lastOp' = "updateStocks"
    /\ lastArg' = <<>>
    /\ UNCHANGED serverVars
    /\ lastInfo' = NoInfo
    /\ UNCHANGED <<stocks, lastUpdated, now>>
    /\ UNCHANGED <<connVars, manual, sinceClose>>

flushDropsQueue(h) ==
    /\ h \in rafCallbacks
    /\ rafCallbacks' = rafCallbacks \ {h}
    /\ lastUpdated' = now
    /\ updateQueue' = <<>>
    /\ rafId' = NULL
    /\ batches' = <<>>
    /\ lastOp' = "flush"
    /\ lastArg' = <<>>
    /\ UNCHANGED serverVars
    /\ lastInfo' = Info(Len(batches), updateQueue, FALSE)
    /\ UNCHANGED <<stocks, now>>
    /\ UNCHANGED <<connVars, manual, sinceClose>>

flushLeavesQueue(h) ==
    /\ h \in rafCallbacks
    /\ rafCallbacks' = rafCallbacks \ {h}
    /\ stocks' = mergeUpdates(stocks, updateQueue)
    /\ lastUpdated' = now
    /\ rafId' = NULL
    /\ batches' = <<>>
    /\ lastOp' = "flush"
    /\ lastArg' = <<>>
    /\ UNCHANGED serverVars
    /\ lastInfo' = Info(Len(batches), updateQueue, FALSE)
    /\ UNCHANGED <<updateQueue, now>>
    /\ UNCHANGED <<connVars, manual, sinceClose>>

\* The frame callback registered by updateStocks, run by the host: it calls
\* updateStocksImmediate(updateQueue), then clears the queue and rafId. When
\* updateStocksImmediate throws, it has not reached its set() call, and the
\* exception leaves the callback before the two assignments.
flush(h) ==
    /\ h \in rafCallbacks
    /\ rafCallbacks' = rafCallbacks \ {h}
    /\ IF throwsOn(updateQueue)
       THEN /\ UNCHANGED <<stocks, lastUpdated, updateQueue, rafId, batches>>
            /\ lastInfo' = NoInfo
       ELSE /\ stocks' = mergeUpdates(stocks, updateQueue)
            /\ lastUpdated' = now
            /\ updateQueue' = <<>>
            /\ rafId' = NULL
            /\ batches' = <<>>
            /\ lastInfo' = Info(Len(batches), updateQueue, FALSE)
    /\ lastOp' = "flush"
    /\ lastArg' = <<>>
    /\ UNCHANGED serverVars
    /\ UNCHANGED now
    /\ UNCHANGED <<connVars, manual, sinceClose>>

\* Wall-clock time passes between two operations.
advanceClock ==
    /\ now + 1 \in Times
    /\ now' = now + 1
    /\ lastOp' = "advanceClock"
    /\ lastArg' = <<>>
    /\ UNCHANGED serverVars
    /\ lastInfo' = NoInfo
    /\ UNCHANGED <<stocks, lastUpdated, updateQueue, rafId, rafCallbacks, batches>>
    /\ UNCHANGED <<connVars, manual, sinceClose>>


--------------------------------------------------------------------------
(* WebSocketStore *)

DEFAULT_WS_URL == "ws://localhost:8080"
BASE_RECONNECT_DELAY == 3000
MAX_RECONNECT_DELAY == 30000
TickMs == 3000

\* A closed socket fires no more events and is referenced by nothing, so its
\* id is handed out again: an id names a socket that is not closed.
SocketIds == 1..MaxSockets
Live(s) == sockets[s] \in {"CONNECTING", "OPEN", "CLOSING"}
Active == { s \in SocketIds : sockets[s] \in {"CONNECTING", "OPEN"} }

NoWindow == [open |-> FALSE, elapsed |-> 0, attempts |-> 0]

\* new WebSocket(url) happened in this step.
Created == \E s \in SocketIds : sockets[s] = "CLOSED" /\ sockets'[s] = "CONNECTING"

Min(a, b) == IF a <= b THEN a ELSE b

\* Math.pow(2, n) for n >= 0
RECURSIVE Pow2(_)
Pow2(n) == IF n <= 0 THEN 1 ELSE 2 * Pow2(n - 1)

reconnectDelayOffByOne(attempts) ==
    Min(BASE_RECONNECT_DELAY * Pow2(attempts), MAX_RECONNECT_DELAY)

\* onclose: Math.min(BASE_RECONNECT_DELAY * Math.pow(2, attempts - 1), MAX_RECONNECT_DELAY)
reconnectDelay(attempts) ==
    Min(BASE_RECONNECT_DELAY * Pow2(attempts - 1), MAX_RECONNECT_DELAY)

doConnectUnguarded(url) ==
    \E s \in SocketIds :
        /\ sockets[s] = "CLOSED"
        /\ \A r \in SocketIds : sockets[r] = "CLOSED" => s <= r
        /\ sockets' = [sockets EXCEPT ![s] = "CONNECTING"]
        /\ urls' = [urls EXCEPT ![s] = url]
        /\ status' = "connecting"
        /\ shouldReconnect' = TRUE
        /\ ws' = s

doConnectEager(url) ==
    IF status = "connected" \/ status = "connecting"
    THEN UNCHANGED <<ws, status, shouldReconnect, sockets, urls>>
    ELSE \E s \in SocketIds :
            /\ sockets[s] = "CLOSED"
            /\ \A r \in SocketIds : sockets[r] = "CLOSED" => s <= r
            /\ sockets' = [sockets EXCEPT ![s] = "CONNECTING"]
            /\ urls' = [urls EXCEPT ![s] = url]
            /\ status' = "connected"
            /\ shouldReconnect' = TRUE
            /\ ws' = s

\* The body of connect(url): the guard, then a new socket with its handlers.
doConnect(url) ==
    IF status = "connected" \/ status = "connecting"
    THEN UNCHANGED <<ws, status, shouldReconnect, sockets, urls>>
    ELSE \E s \in SocketIds :
            /\ sockets[s] = "CLOSED"
            /\ \A r \in SocketIds : sockets[r] = "CLOSED" => s <= r
            /\ sockets' = [sockets EXCEPT ![s] = "CONNECTING"]
            /\ urls' = [urls EXCEPT ![s] = url]
            /\ status' = "connecting"
            /\ shouldReconnect' = TRUE
            /\ ws' = s

\* The observation window counts the sockets created while it is open.
countAttempt ==
    sinceClose' = IF sinceClose.open /\ Created
                  THEN [sinceClose EXCEPT !.attempts = @ + 1]
                  ELSE sinceClose

\* The url argument of a connect() call without argument (undefined), and
\* of a socket that is closed.
NoUrl == "undefined"

urlAlwaysDefault(arg) == DEFAULT_WS_URL

\* url: string = DEFAULT_WS_URL
urlOrDefault(arg) == IF arg = NoUrl THEN DEFAULT_WS_URL ELSE arg

\* connect(arg) called by the application.
connectWith(arg) ==
    /\ doConnect(urlOrDefault(arg))
    /\ manual' = FALSE
    /\ sinceClose' = NoWindow
    /\ lastOp' = "connect"
    /\ lastArg' = <<arg>>
    /\ UNCHANGED serverVars
    /\ UNCHANGED <<reconnectAttempts, timers, lastInfo, storeVars>>

\* connect() called by the application.
connect ==
    /\ doConnect(DEFAULT_WS_URL)
    /\ manual' = FALSE
    /\ sinceClose' = NoWindow
    /\ lastOp' = "connect"
    /\ lastArg' = <<>>
    /\ UNCHANGED serverVars
    /\ UNCHANGED <<reconnectAttempts, timers, lastInfo, storeVars>>

\* ws.close() of the host: the mock socket of the tests runs onclose inside
\* the call ("sync"); a browser socket turns CLOSING and fires close later.
CloseModes == {"sync", "async"}

disconnectKeepsAttempts(mode) ==
    /\ shouldReconnect' = FALSE
    /\ IF ws # NULL
       THEN /\ sockets' = [sockets EXCEPT ![ws] =
                             IF mode = "sync" THEN "CLOSED" ELSE "CLOSING"]
            /\ urls' = IF mode = "sync" THEN [urls EXCEPT ![ws] = NoUrl] ELSE urls
       ELSE /\ mode = "sync"
            /\ UNCHANGED <<sockets, urls>>
    /\ ws' = NULL
    /\ status' = "disconnected"
    /\ UNCHANGED reconnectAttempts
    /\ manual' = TRUE
    /\ sinceClose' = NoWindow
    /\ timers' = [i \in 1..Len(timers) |-> [timers[i] EXCEPT !.stale = TRUE]]
    /\ lastOp' = "disconnect"
    /\ lastArg' = <<>>
    /\ UNCHANGED serverVars
    /\ UNCHANGED <<lastInfo, storeVars>>

\* disconnect() called by the application. With a synchronous close the
\* onclose handler runs after shouldReconnect was cleared, so it schedules
\* nothing, and the final set() overwrites what it wrote.
disconnect(mode) ==
    /\ shouldReconnect' = FALSE
    /\ IF ws # NULL
       THEN /\ sockets' = [sockets EXCEPT ![ws] =
                             IF mode = "sync" THEN "CLOSED" ELSE "CLOSING"]
            /\ urls' = IF mode = "sync" THEN [urls EXCEPT ![ws] = NoUrl] ELSE urls
       ELSE /\ mode = "sync"
            /\ UNCHANGED <<sockets, urls>>
    /\ ws' = NULL
    /\ status' = "disconnected"
    /\ reconnectAttempts' = 0
    /\ manual' = TRUE
    /\ sinceClose' = NoWindow
    /\ timers' = [i \in 1..Len(timers) |-> [timers[i] EXCEPT !.stale = TRUE]]
    /\ lastOp' = "disconnect"
    /\ lastArg' = <<>>
    /\ UNCHANGED serverVars
    /\ UNCHANGED <<lastInfo, storeVars>>

onopenKeepsAttempts(s) ==
    /\ sockets[s] = "CONNECTING"
    /\ sockets' = [sockets EXCEPT ![s] = "OPEN"]
    /\ UNCHANGED urls
    /\ ws' = s
    /\ status' = "connected"
    /\ lastOp' = "onopen"
    /\ lastArg' = <<>>
    /\ UNCHANGED serverVars
    /\ UNCHANGED <<reconnectAttempts, shouldReconnect, timers, lastInfo, manual, sinceClose, storeVars>>

onopenWithoutHandle(s) ==
    /\ sockets[s] = "CONNECTING"
    /\ sockets' = [sockets EXCEPT ![s] = "OPEN"]
    /\ UNCHANGED urls
    /\ status' = "connected"
    /\ reconnectAttempts' = 0
    /\ lastOp' = "onopen"
    /\ lastArg' = <<>>
    /\ UNCHANGED serverVars
    /\ UNCHANGED <<ws, shouldReconnect, timers, lastInfo, manual, sinceClose, storeVars>>

\* ws.onopen of socket s
onopen(s) ==
    /\ sockets[s] = "CONNECTING"
    /\ sockets' = [sockets EXCEPT ![s] = "OPEN"]
    /\ UNCHANGED urls
    /\ ws' = s
    /\ status' = "connected"
    /\ reconnectAttempts' = 0
    /\ lastOp' = "onopen"
    /\ lastArg' = <<>>
    /\ UNCHANGED serverVars
    /\ UNCHANGED <<shouldReconnect, timers, lastInfo, manual, sinceClose, storeVars>>

onerrorGivesUp(s) ==
    /\ Live(s)
    /\ status' = "error"
    /\ shouldReconnect' = FALSE
    /\ lastOp' = "onerror"
    /\ lastArg' = <<>>
    /\ UNCHANGED serverVars
    /\ UNCHANGED <<ws, reconnectAttempts, sockets, urls, timers>>
    /\ UNCHANGED <<lastInfo, manual, sinceClose, storeVars>>

\* ws.onerror of socket s
onerror(s) ==
    /\ Live(s)
    /\ status' = "error"
    /\ lastOp' = "onerror"
    /\ lastArg' = <<>>
    /\ UNCHANGED serverVars
    /\ UNCHANGED <<ws, reconnectAttempts, shouldReconnect, sockets, urls, timers>>
    /\ UNCHANGED <<lastInfo, manual, sinceClose, storeVars>>

\* ws.onclose of socket s, fired by the host when the socket closes.
onclose(s) ==
    /\ Live(s)
    /\ sockets' = [sockets EXCEPT ![s] = "CLOSED"]
    /\ urls' = [urls EXCEPT ![s] = NoUrl]
    /\ ws' = NULL
    /\ status' = "disconnected"
    /\ IF shouldReconnect
       THEN LET attempts == reconnectAttempts + 1
                delay == reconnectDelay(attempts)
            IN  /\ attempts <= MaxAttempts
                /\ Len(timers) < MaxTimers
                /\ reconnectAttempts' = attempts
                /\ timers' = Append(timers, [remaining |-> delay, url |-> urls[s],
                                          stale |-> FALSE])
       ELSE UNCHANGED <<reconnectAttempts, timers>>
    /\ sinceClose' = IF shouldReconnect /\ reconnectAttempts = 0
                        /\ sockets[s] # "CLOSING"
                     THEN [open |-> TRUE, elapsed |-> 0, attempts |-> 0]
                     ELSE sinceClose
    /\ lastOp' = "onclose"
    /\ lastArg' = <<>>
    /\ UNCHANGED serverVars
    /\ UNCHANGED <<shouldReconnect, lastInfo, manual, storeVars>>

RemoveAt(seq, i) == SubSeq(seq, 1, i - 1) \o SubSeq(seq, i + 1, Len(seq))

Due(i) == timers[i].remaining = 0

reconnectTimerUnchecked(i) ==
    /\ i \in 1..Len(timers)
    /\ Due(i)
    /\ \A j \in 1..(i - 1) : ~Due(j)
    /\ timers' = RemoveAt(timers, i)
    /\ doConnect(timers[i].url)
    /\ countAttempt
    /\ lastOp' = "reconnectTimer"
    /\ lastArg' = <<>>
    /\ UNCHANGED serverVars
    /\ UNCHANGED <<reconnectAttempts, lastInfo, manual, storeVars>>

\* The setTimeout callback of onclose; due timers run in creation order.
reconnectTimer(i) ==
    /\ i \in 1..Len(timers)
    /\ Due(i)
    /\ \A j \in 1..(i - 1) : ~Due(j)
    /\ timers' = RemoveAt(timers, i)
    /\ IF shouldReconnect
       THEN doConnect(timers[i].url)
       ELSE UNCHANGED <<ws, status, shouldReconnect, sockets, urls>>
    /\ countAttempt
    /\ lastOp' = "reconnectTimer"
    /\ lastArg' = <<>>
    /\ UNCHANGED serverVars
    /\ UNCHANGED <<reconnectAttempts, lastInfo, manual, storeVars>>

\* TickMs of time pass; a due timer runs before time moves on.
tick ==
    /\ timers # <<>>
    /\ \A i \in 1..Len(timers) : timers[i].remaining >= TickMs
    /\ timers' = [i \in 1..Len(timers) |->
                    [timers[i] EXCEPT !.remaining = @ - TickMs]]
    /\ sinceClose' = IF ~sinceClose.open THEN sinceClose
                     ELSE IF sinceClose.elapsed >= BASE_RECONNECT_DELAY THEN NoWindow
                     ELSE [sinceClose EXCEPT !.elapsed = @ + TickMs]
    /\ lastOp' = "tick"
    /\ lastArg' = <<>>
    /\ UNCHANGED serverVars
    /\ UNCHANGED <<ws, status, reconnectAttempts, shouldReconnect, sockets, urls>>
    /\ UNCHANGED <<lastInfo, manual, storeVars>>

--------------------------------------------------------------------------
(* ws.onmessage: the feed from a socket into the StockDataStore *)

\* event.data of a message event: text that JSON.parse rejects ("garbage"),
\* JSON of some other type ("other"), or an encoded WebSocketMessage.
Payloads ==
    {[kind |-> "garbage"], [kind |-> "other"]}
      \cup { [kind |-> "snapshot", stocks |-> list] : list \in Snapshots }
      \cup { [kind |-> "update", deltas |-> updates] : updates \in UpdateBatches }

\* The exception JSON.parse throws on text that is not JSON.
SyntaxError == [type |-> "SyntaxError"]

parseMessageLenient(payload) ==
    CASE payload.kind = "garbage"  -> [type |-> "snapshot", stocks |-> <<>>]
      [] payload.kind = "snapshot" -> [type |-> "snapshot", stocks |-> payload.stocks]
      [] payload.kind = "update"   -> [type |-> "update", deltas |-> payload.deltas]
      [] OTHER                     -> [type |-> "other"]

\* JSON.parse(event.data): the message, or the exception it throws.
parseMessage(payload) ==
    CASE payload.kind = "garbage"  -> SyntaxError
      [] payload.kind = "snapshot" -> [type |-> "snapshot", stocks |-> payload.stocks]
      [] payload.kind = "update"   -> [type |-> "update", deltas |-> payload.deltas]
      [] OTHER                     -> [type |-> "other"]

\* The body of ws.onmessage of socket s: a snapshot goes to setStocks, an
\* update to updateStocks; an exception of JSON.parse is caught and logged.
handleMessage(s, payload) ==
    LET message == parseMessage(payload) IN
    /\ sockets[s] \in {"OPEN", "CLOSING"}
    /\ CASE message = SyntaxError ->
              UNCHANGED <<stocks, lastUpdated, updateQueue, rafId, rafCallbacks, batches>>
         [] message.type = "snapshot" ->
              /\ stocks' = buildStockMap(newStockMap, message.stocks)
              /\ lastUpdated' = now
              /\ UNCHANGED <<updateQueue, rafId, rafCallbacks, batches>>
         [] message.type = "update" ->
              /\ Len(updateQueue) + Len(message.deltas) <= MaxQueue
              /\ Len(batches) < MaxCalls
              /\ updateQueue' = pushAll(updateQueue, message.deltas)
              /\ IF rafId = NULL
                 THEN /\ rafId' = newHandle
                      /\ rafCallbacks' = rafCallbacks \cup {newHandle}
                 ELSE UNCHANGED <<rafId, rafCallbacks>>
              /\ batches' = Append(batches, message.deltas)
              /\ UNCHANGED <<stocks, lastUpdated>>
         [] OTHER ->
              UNCHANGED <<stocks, lastUpdated, updateQueue, rafId, rafCallbacks, batches>>
    /\ lastOp' = "onmessage"
    /\ lastArg' = <<s, payload.kind, lastOp = "onmessage" /\ lastArg[1] = s
                                       /\ lastArg[2] = "garbage">>
    /\ lastInfo' = NoInfo
    /\ UNCHANGED <<now, connVars, manual, sinceClose>>

\* A message event of socket s whose data is payload.
onmessage(s, payload) ==
    /\ handleMessage(s, payload)
    /\ UNCHANGED serverVars

--------------------------------------------------------------------------
(* Server: the entity store, the sessions of the WebSocketServer, the       *)
(* MarketSimulator and broadcastUpdate.  The server with the simulator is   *)
(* the code after line 216 of src/src/stores/__tests__/StockDataStore.test.ts, *)
(* the MarketSimulator is src/unnamed/part_006.  connectionCount only       *)
(* numbers the log lines and the timestamp of a message is never read, so   *)
(* neither is part of the state.                                            *)

ServerSymbols == <<"A", "B", "C">>

\* generateStocks(n) followed by the startup loop that sets volatility and
\* openPrice: n entities with distinct symbols, the identity fields (name,
\* sector), the fast-changing fields (price, changePercent, volume,
\* momentumScore) and the simulation constants (openPrice, volatility).
generateStocks(n) ==
    [i \in 1..n |-> [symbol |-> ServerSymbols[i], name |-> NameOf(ServerSymbols[i]),
                     sector |-> "Energy",
                     price |-> 10, changePercent |-> 0, volume |-> 100,
                     momentumScore |-> 50,
                     openPrice |-> 10, volatility |-> 2]]

\* The entity count with config.updatePercentage in tenths: all of two
\* entities, half of two, none of three, 0.7 of three.
SimulatorConfigs ==
    {[n |-> 2, tenths |-> 10], [n |-> 2, tenths |-> 5],
     [n |-> 3, tenths |-> 0], [n |-> 3, tenths |-> 7]}

SessionIds == 1..MaxSessions

NoSession == [readyState |-> "ABSENT", isAlive |-> FALSE, first |-> "none",
              pinged |-> FALSE]

\* wss.clients
wssClients == { c \in SessionIds : clients[c].readyState # "ABSENT" }

OpenClients == { c \in SessionIds : clients[c].readyState = "OPEN" }

NoSend == [msg |-> [type |-> "none"], sample |-> <<>>, delivered |-> {}, failed |-> {}]

NoBeat == [terminated |-> {}, pinged |-> {}]

\* Sequences of k distinct numbers of 1..max
DistinctSeqs(max, k) ==
    { q \in [1..k -> 1..max] : \A i, j \in 1..k : q[i] = q[j] => i = j }

numToUpdateCeil(length, tenths) == (length * tenths + 9) \div 10

\* Math.floor(this.stocks.length * this.config.updatePercentage)
numToUpdate(length, tenths) == (length * tenths) \div 10

\* The results getRandomIndices(max, count) can return: the first count
\* elements of a shuffle of all indices when count > max / 2, else count
\* distinct random indices in the order they were drawn.
getRandomIndices(max, count) ==
    IF 2 * count > max
    THEN DistinctSeqs(max, Min(count, max))
    ELSE DistinctSeqs(max, IF count < 0 THEN 0 ELSE count)

\* ---- IEEE doubles, scaled down ----
\* The numbers of the simulation are integers: a finite double is an integer
\* of magnitude at most MAX_VALUE, a result beyond it overflows to Infinity
\* or -Infinity, and NaN is the result of 0 * Infinity and Infinity - Infinity.
MAX_VALUE == 250
Infinity == MAX_VALUE + 1
NaN == MAX_VALUE + 2

isNaN(x) == x = NaN
isFinite(x) == 0 - MAX_VALUE <= x /\ x <= MAX_VALUE
negative(x) == ~isNaN(x) /\ x < 0

\* The double nearest to the exact result x of an operation on finite doubles
overflow(x) ==
    IF x > MAX_VALUE THEN Infinity
    ELSE IF x < 0 - MAX_VALUE THEN 0 - Infinity
    ELSE x

\* x + y
plus(x, y) ==
    IF isNaN(x) \/ isNaN(y) THEN NaN
    ELSE IF isFinite(x) /\ isFinite(y) THEN overflow(x + y)
    ELSE IF isFinite(x) THEN y
    ELSE IF isFinite(y) \/ x = y THEN x
    ELSE NaN

\* x - y
minus(x, y) == IF isNaN(y) THEN NaN ELSE plus(x, 0 - y)

\* The integer quotient rounded towards zero
quotient(a, b) ==
    IF (a < 0) = (b < 0) THEN (IF a < 0 THEN 0 - a ELSE a) \div (IF b < 0 THEN 0 - b ELSE b)
    ELSE 0 - ((IF a < 0 THEN 0 - a ELSE a) \div (IF b < 0 THEN 0 - b ELSE b))

\* x * y / unit for a finite unit > 0: the product of x with a factor y that
\* is held in units of 1 / unit (a fraction in hundredths), or the quotient
\* x / unit * y.
timesOver(x, y, unit) ==
    IF isNaN(x) \/ isNaN(y) THEN NaN
    ELSE IF isFinite(x) /\ isFinite(y) THEN overflow(quotient(x * y, unit))
    ELSE IF x = 0 \/ y = 0 THEN NaN
    ELSE IF negative(x) = negative(y) THEN Infinity
    ELSE 0 - Infinity

\* x / y * 100
percentOver(x, y) ==
    IF isNaN(x) \/ isNaN(y) THEN NaN
    ELSE IF isFinite(x) /\ isFinite(y)
    THEN IF y # 0 THEN overflow(quotient(x * 100, y))
         ELSE IF x = 0 THEN NaN
         ELSE IF negative(x) THEN 0 - Infinity ELSE Infinity
    ELSE IF isFinite(x) THEN 0
    ELSE IF ~isFinite(y) THEN NaN
    ELSE IF negative(x) = negative(y) THEN Infinity
    ELSE 0 - Infinity

\* Math.max(x, y) and Math.min(x, y): NaN if an argument is NaN
mathMax(x, y) == IF isNaN(x) \/ isNaN(y) THEN NaN ELSE IF x >= y THEN x ELSE y
mathMin(x, y) == IF isNaN(x) \/ isNaN(y) THEN NaN ELSE IF x <= y THEN x ELSE y

\* x || y for numbers: y when x is 0 or NaN
orElse(x, y) == IF x = 0 \/ isNaN(x) THEN y ELSE x

\* The draws of one simulateStockUpdate call. normalRandom is the Box-Muller
\* value times the time scale sqrt(1 / 252 / 6.5 / 3600), so that its product
\* with the volatility (in hundredths) is priceChangePercent in hundredths;
\* Math.random() returns 0 for u1 in the draws that make it infinite.
\* volumeChange is (Math.random() - 0.5) * 0.1, in hundredths.
SimDraws ==
    { [normalRandom |-> z, volumeChange |-> v] :
        z \in {0 - Infinity, 0 - 50, 50, Infinity}, v \in {0 - 5, 4} }

volatilityMultiplier == 1

\* The volatility simulateStockUpdate uses, in hundredths
volatilityOf(stock) == orElse(stock.volatility, 2) * volatilityMultiplier

priceChangePercent(stock, draw) == timesOver(draw.normalRandom, volatilityOf(stock), 1)

clampScoreBelowOnly(x) == mathMax(0, x)

\* Math.max(0, Math.min(100, x))
clampScore(x) == mathMax(0, mathMin(100, x))

\* The arithmetic of simulateStockUpdate(stock) for the given draws: the
\* new price, the new volume and the new momentum score.
simulatedValue(stock, draw) ==
    [price |-> timesOver(stock.price, plus(100, priceChangePercent(stock, draw)), 100),
     volume |-> mathMax(0, timesOver(stock.volume, plus(100, draw.volumeChange), 100)),
     momentumScore |-> clampScore(plus(stock.momentumScore,
                                       priceChangePercent(stock, draw)))]

\* What the random draws of simulateStockUpdate can make of an entity: a new
\* price, volume and momentum score.
SimValues ==
    {[price |-> 10, volume |-> 100, momentumScore |-> 50],
     [price |-> 20, volume |-> 200, momentumScore |-> 60]}

\* ((newPrice - openPrice) / openPrice) * 100; the first branch is the case
\* of a finite price at or above a finite positive open price.
changePercentOf(newPrice, openPrice) ==
    IF openPrice <= newPrice /\ newPrice <= MAX_VALUE
          /\ 0 < openPrice /\ openPrice <= MAX_VALUE
    THEN overflow(((newPrice - openPrice) * 100) \div openPrice)
    ELSE percentOver(minus(newPrice, openPrice), openPrice)

simulateStockUpdateRenames(stock, value) ==
    LET openPrice == orElse(stock.openPrice, stock.price) IN
    [stock EXCEPT !.price = value.price,
                  !.changePercent = changePercentOf(value.price, openPrice),
                  !.volume = value.volume,
                  !.momentumScore = value.momentumScore,
                  !.name = stock.symbol]

\* simulateStockUpdate(stock): the entity after the writes into it;
\* changePercent is recomputed against openPrice (stock.openPrice || stock.price).
simulateStockUpdate(stock, value) ==
    LET openPrice == orElse(stock.openPrice, stock.price) IN
    [stock EXCEPT !.price = value.price,
                  !.changePercent = changePercentOf(value.price, openPrice),
                  !.volume = value.volume,
                  !.momentumScore = value.momentumScore]

\* The delta simulateStockUpdate returns for the entity it has written.
deltaOf(stock) ==
    [symbol |-> stock.symbol, price |-> stock.price,
     changePercent |-> stock.changePercent, volume |-> stock.volume,
     momentumScore |-> stock.momentumScore]

\* The index of the random draw that samples entity i, or 0.
drawOf(indices, i) ==
    IF \E k \in 1..Len(indices) : indices[k] = i
    THEN CHOOSE k \in 1..Len(indices) : indices[k] = i
    ELSE 0

\* The stocks array after generateUpdate: the sampled entities rewritten.
stocksAfterUpdate(indices, values) ==
    [i \in 1..Len(serverStocks) |->
        IF drawOf(indices, i) # 0
        THEN simulateStockUpdate(serverStocks[i], values[drawOf(indices, i)])
        ELSE serverStocks[i]]

generateUpdateForAll(indices, values) ==
    [i \in 1..Len(serverStocks) |-> deltaOf(stocksAfterUpdate(indices, values)[i])]

\* generateUpdate(): the deltas of the sampled entities, in sampling order.
generateUpdate(indices, values) ==
    [k \in 1..Len(indices) |->
        deltaOf(simulateStockUpdate(serverStocks[indices[k]], values[k]))]

broadcastUpdateAborts(deltas, sample, failed) ==
    LET delivered == { c \in OpenClients : \A f \in failed : c < f } IN
    /\ failed \subseteq OpenClients
    /\ clients' = [c \in SessionIds |->
                     IF c \in delivered /\ clients[c].first = "none"
                     THEN [clients[c] EXCEPT !.first = "update"]
                     ELSE clients[c]]
    /\ lastSend' = [msg |-> [type |-> "update", deltas |-> deltas],
                    sample |-> sample, delivered |-> delivered, failed |-> failed]

\* broadcastUpdate(deltas): one send per client whose readyState is OPEN;
\* the sends to the clients in failed throw and are caught.
broadcastUpdate(deltas, sample, failed) ==
    LET delivered == OpenClients \ failed IN
    /\ failed \subseteq OpenClients
    /\ clients' = [c \in SessionIds |->
                     IF c \in delivered /\ clients[c].first = "none"
                     THEN [clients[c] EXCEPT !.first = "update"]
                     ELSE clients[c]]
    /\ lastSend' = [msg |-> [type |-> "update", deltas |-> deltas],
                    sample |-> sample, delivered |-> delivered, failed |-> failed]

startupStocks == generateStocks(Len(serverStocks))

\* stocks: stocks of the snapshot message, serialized in the handler: the
\* array as the generator ticks have left it.
snapshotStocks == serverStocks

\* setInterval(cb, ms): the host hands out a handle not in use.
newInterval == CHOOSE h \in 1..(Cardinality(intervals) + 1) : h \notin intervals

doStartUnguarded(current) ==
    /\ intervalId' = newInterval
    /\ intervals' = intervals \cup {newInterval}

\* The body of MarketSimulator.start() on a simulator whose intervalId is
\* current (null for the object new MarketSimulator has just built).
doStart(current) ==
    IF current # NULL
    THEN UNCHANGED <<intervalId, intervals>>
    ELSE /\ intervalId' = newInterval
         /\ intervals' = intervals \cup {newInterval}

\* The body of MarketSimulator.stop()
doStop ==
    IF intervalId # NULL
    THEN /\ intervals' = intervals \ {intervalId}
         /\ intervalId' = NULL
    ELSE UNCHANGED <<intervalId, intervals>>

\* if (!marketSimulator && wss.clients.size === 1), c being in wss.clients
shouldStart(c) == marketSimulator = "null" /\ Cardinality(wssClients \cup {c}) = 1

shouldStopOnAnyClose(c) == marketSimulator # "null"

\* if (marketSimulator && wss.clients.size === 0), c having left wss.clients
shouldStop(c) == marketSimulator # "null" /\ wssClients \ {c} = {}

\* wss.on('connection') for a new session c; sendOk: ws.send(snapshot)
\* returned, otherwise it threw and the handler caught it.
connection(c, sendOk) ==
    /\ clients[c].readyState = "ABSENT"
    /\ clients' = [clients EXCEPT ![c] =
                     [readyState |-> "OPEN", isAlive |-> TRUE,
                      first |-> IF sendOk THEN "snapshot" ELSE "none",
                      pinged |-> FALSE]]
    /\ lastSend' = [msg |-> [type |-> "snapshot", stocks |-> snapshotStocks],
                    sample |-> <<>>,
                    delivered |-> IF sendOk THEN {c} ELSE {},
                    failed |-> IF sendOk THEN {} ELSE {c}]
    /\ IF shouldStart(c)
       THEN /\ marketSimulator' = "running"
            /\ doStart(NULL)
       ELSE UNCHANGED <<marketSimulator, intervalId, intervals>>
    /\ lastBeat' = NoBeat
    /\ lastOp' = "connection"
    /\ UNCHANGED <<serverStocks, updatePercentage>>
    /\ UNCHANGED <<genVars, storeVars, connVars, lastArg, lastInfo, manual, sinceClose>>

\* The closing handshake of session c has started: readyState is CLOSING.
closing(c) ==
    /\ clients[c].readyState = "OPEN"
    /\ clients' = [clients EXCEPT ![c].readyState = "CLOSING"]
    /\ lastSend' = NoSend
    /\ lastBeat' = NoBeat
    /\ lastOp' = "closing"
    /\ UNCHANGED <<serverStocks, updatePercentage, marketSimulator, simVars>>
    /\ UNCHANGED <<genVars, storeVars, connVars, lastArg, lastInfo, manual, sinceClose>>

\* ws.on('close') of session c: the server has removed it from wss.clients.
sessionClose(c) ==
    /\ clients[c].readyState # "ABSENT"
    /\ clients' = [clients EXCEPT ![c] = NoSession]
    /\ IF shouldStop(c)
       THEN /\ doStop
            /\ marketSimulator' = "null"
       ELSE UNCHANGED <<marketSimulator, intervalId, intervals>>
    /\ lastSend' = NoSend
    /\ lastBeat' = NoBeat
    /\ lastOp' = "sessionClose"
    /\ UNCHANGED <<serverStocks, updatePercentage>>
    /\ UNCHANGED <<genVars, storeVars, connVars, lastArg, lastInfo, manual, sinceClose>>

\* The setInterval callback of MarketSimulator.start: generateUpdate writes
\* new values into the sampled entities and returns their deltas, which
\* onUpdate = broadcastUpdate sends when there are any.
generatorTick(indices, values, failed) ==
    LET deltas == generateUpdate(indices, values) IN
    /\ intervals # {}
    /\ indices \in getRandomIndices(Len(serverStocks),
                                    numToUpdate(Len(serverStocks), updatePercentage))
    /\ Len(values) = Len(indices)
    /\ serverStocks' = stocksAfterUpdate(indices, values)
    /\ IF Len(deltas) > 0
       THEN broadcastUpdate(deltas, indices, failed)
       ELSE /\ failed = {}
            /\ lastSend' = [NoSend EXCEPT !.sample = indices]
            /\ UNCHANGED clients
    /\ lastBeat' = NoBeat
    /\ lastOp' = "generatorTick"
    /\ UNCHANGED <<updatePercentage, marketSimulator, simVars>>
    /\ UNCHANGED <<genVars, storeVars, connVars, lastArg, lastInfo, manual, sinceClose>>

\* MarketSimulator.start() called on the simulator; lastArg: whether its
\* timer was set at the call.
start ==
    /\ doStart(intervalId)
    /\ lastOp' = "start"
    /\ lastArg' = <<intervalId # NULL>>
    /\ UNCHANGED <<serverStocks, updatePercentage, clients, marketSimulator, lastSend, lastBeat>>
    /\ UNCHANGED <<genVars, storeVars, connVars, lastInfo, manual, sinceClose>>

\* MarketSimulator.stop() called on the simulator
stop ==
    /\ doStop
    /\ lastOp' = "stop"
    /\ lastArg' = <<intervalId # NULL>>
    /\ UNCHANGED <<serverStocks, updatePercentage, clients, marketSimulator, lastSend, lastBeat>>
    /\ UNCHANGED <<genVars, storeVars, connVars, lastInfo, manual, sinceClose>>

sessionErrorDropsAll(c) ==
    /\ clients[c].readyState \in {"OPEN", "CLOSING"}
    /\ clients' = [d \in SessionIds |->
                     IF clients[d].readyState = "OPEN"
                     THEN [clients[d] EXCEPT !.readyState = "CLOSING"]
                     ELSE clients[d]]
    /\ lastSend' = NoSend
    /\ lastBeat' = NoBeat
    /\ lastOp' = "sessionError"
    /\ UNCHANGED <<serverStocks, updatePercentage, marketSimulator, simVars>>
    /\ UNCHANGED <<genVars, storeVars, connVars, lastArg, lastInfo, manual, sinceClose>>

\* ws.on('error') of session c: the handler logs the error; the socket that
\* has emitted it is being closed (readyState CLOSING) and its close event
\* follows.
sessionError(c) ==
    /\ clients[c].readyState \in {"OPEN", "CLOSING"}
    /\ clients' = [clients EXCEPT ![c].readyState = "CLOSING"]
    /\ lastSend' = NoSend
    /\ lastBeat' = NoBeat
    /\ lastOp' = "sessionError"
    /\ UNCHANGED <<serverStocks, updatePercentage, marketSimulator, simVars>>
    /\ UNCHANGED <<genVars, storeVars, connVars, lastArg, lastInfo, manual, sinceClose>>

heartbeatNeverReaps ==
    /\ clients' = [c \in SessionIds |->
                     IF c \in wssClients
                     THEN [clients[c] EXCEPT !.isAlive = FALSE, !.pinged = TRUE]
                     ELSE clients[c]]
    /\ lastBeat' = [terminated |-> {}, pinged |-> wssClients]
    /\ lastSend' = NoSend
    /\ lastOp' = "heartbeat"
    /\ UNCHANGED <<serverStocks, updatePercentage, marketSimulator, simVars>>
    /\ UNCHANGED <<genVars, storeVars, connVars, lastArg, lastInfo, manual, sinceClose>>

\* The setInterval callback of heartbeatInterval: every session of
\* wss.clients whose isAlive is false is terminated (terminate() destroys the
\* socket: readyState CLOSING, the close event follows); every other one gets
\* isAlive = false and a ping.
heartbeat ==
    LET dead == { c \in wssClients : clients[c].isAlive = FALSE } IN
    /\ clients' = [c \in SessionIds |->
                     IF c \in dead
                     THEN [clients[c] EXCEPT !.readyState = "CLOSING"]
                     ELSE IF c \in wssClients
                     THEN [clients[c] EXCEPT !.isAlive = FALSE, !.pinged = TRUE]
                     ELSE clients[c]]
    /\ lastBeat' = [terminated |-> dead, pinged |-> wssClients \ dead]
    /\ lastSend' = NoSend
    /\ lastOp' = "heartbeat"
    /\ UNCHANGED <<serverStocks, updatePercentage, marketSimulator, simVars>>
    /\ UNCHANGED <<genVars, storeVars, connVars, lastArg, lastInfo, manual, sinceClose>>

\* ws.on('pong') of session c: the session has answered (or sent a pong of
\* its own accord).
pong(c) ==
    /\ clients[c].readyState = "OPEN"
    /\ clients' = [clients EXCEPT ![c].isAlive = TRUE, ![c].pinged = FALSE]
    /\ lastSend' = NoSend
    /\ lastBeat' = NoBeat
    /\ lastOp' = "pong"
    /\ UNCHANGED <<serverStocks, updatePercentage, marketSimulator, simVars>>
    /\ UNCHANGED <<genVars, storeVars, connVars, lastArg, lastInfo, manual, sinceClose>>

--------------------------------------------------------------------------
(* generateStocks (src/src/server/dataGenerator.ts): the symbols of the      *)
(* entities; generateStock fills in the other fields and reads no state.     *)

\* The argument of a call without argument (undefined), encoded as a number
\* no call passes.
NoCount == 0 - 1

DEFAULT_COUNT == 2000

\* count: number = 2000
countOf(arg) == IF arg = NoCount THEN DEFAULT_COUNT ELSE arg

\* SYMBOL_LETTERS, three of the letters
SYMBOL_LETTERS == {"A", "B", "C"}

\* randomInt(3, 5) of generateSymbol, scaled to the three letters
SymbolLengths == 1..2

\* The strings of a given length over SYMBOL_LETTERS
RECURSIVE Words(_)
Words(length) ==
    IF length = 0 THEN {""}
    ELSE { w \o l : w \in Words(length - 1), l \in SYMBOL_LETTERS }

\* WELL_KNOWN_SYMBOLS: symbols with the shape of generated ones
WELL_KNOWN_SYMBOLS == <<"AB", "C">>

\* Every string generateSymbol can build
AllSymbols == UNION { Words(length) : length \in SymbolLengths }

generateSymbolUnchecked(existing) == AllSymbols

\* The symbols generateSymbol(existingSymbols) can return: for the length
\* drawn, a random string of that length that the set does not hold.
generateSymbol(existing) ==
    UNION { Words(length) \ existing : length \in SymbolLengths }

\* One iteration of the for-loop of generateStocks.
generateNext(symbol) ==
    /\ genI < countOf(genArg)
    /\ genI < MaxCount
    /\ symbol \in IF genI < Len(WELL_KNOWN_SYMBOLS)
                   THEN {WELL_KNOWN_SYMBOLS[genI + 1]}
                   ELSE generateSymbol(existingSymbols)
    /\ existingSymbols' = existingSymbols \cup {symbol}
    /\ generated' = Append(generated, [symbol |-> symbol, name |-> NameOf(symbol)])
    /\ genI' = genI + 1
    /\ genArg' = genArg
    /\ lastOp' = "generateStocks"
    /\ UNCHANGED <<serverStocks, updatePercentage, clients, marketSimulator, lastSend,
                   simVars, lastBeat>>
    /\ UNCHANGED <<storeVars, connVars, lastArg, lastInfo, manual, sinceClose>>

\* The call generateStocks(arg) at its first statement.
GenInit(arg) ==
    /\ genArg = arg
    /\ genI = 0
    /\ generated = <<>>
    /\ existingSymbols = {}

--------------------------------------------------------------------------
ClientInit ==
    /\ stocks = EmptyMap
    /\ lastUpdated = NULL
    /\ updateQueue = <<>>
    /\ rafId = NULL
    /\ rafCallbacks = {}
    /\ now = 1
    /\ batches = <<>>
    /\ ws = NULL
    /\ status = "disconnected"
    /\ reconnectAttempts = 0
    /\ shouldReconnect = TRUE
    /\ sockets = [s \in SocketIds |-> "CLOSED"]
    /\ urls = [s \in SocketIds |-> NoUrl]
    /\ timers = <<>>
    /\ lastOp = "init"
    /\ lastArg = <<>>
    /\ lastInfo = NoInfo
    /\ manual = FALSE
    /\ sinceClose = NoWindow

\* The server after startup, before any connection.
ServerInit(config) ==
    /\ serverStocks = generateStocks(config.n)
    /\ updatePercentage = config.tenths
    /\ clients = [c \in SessionIds |-> NoSession]
    /\ marketSimulator = "null"
    /\ lastSend = NoSend
    /\ intervalId = NULL
    /\ intervals = {}
    /\ lastBeat = NoBeat

\* The client alone: no server process is part of the state.
Init == ClientInit /\ ServerInit([n |-> 0, tenths |-> 0]) /\ GenInit(0)

\* The client state does not move in the server's specification.
InitServer ==
    ClientInit /\ GenInit(0) /\ \E config \in SimulatorConfigs : ServerInit(config)

StoreNext ==
    \/ \E list \in Snapshots : setStocks(list)
    \/ \E updates \in UpdateBatches : updateStocks(updates)
    \/ \E updates \in UpdateBatches : updateStocksImmediate(updates)
    \/ \E h \in rafCallbacks : flush(h)
    \/ advanceClock

SpecStore == Init /\ [][StoreNext]_vars

\* The store of a caller that may pass null as a delta.
FaultyNext ==
    \/ \E list \in Snapshots : setStocks(list)
    \/ \E updates \in UpdateBatches \cup {<<JsNull>>} : updateStocks(updates)
    \/ \E h \in rafCallbacks : flush(h)

SpecFaulty == Init /\ [][FaultyNext]_vars

ConnNext ==
    \/ connect
    \/ \E mode \in CloseModes : disconnect(mode)
    \/ \E s \in SocketIds : onopen(s)
    \/ \E s \in SocketIds : onerror(s)
    \/ \E s \in SocketIds : onclose(s)
    \/ \E i \in 1..Len(timers) : reconnectTimer(i)
    \/ tick

SpecConn == Init /\ [][ConnNext]_vars

\* Another endpoint an application may name
OtherUrl == "ws://feed.example:9000"

\* The connection manager of an application that names the endpoint in some
\* of its connect() calls, within one reconnect delay: the timers that
\* onclose sets stay pending.
EndpointNext ==
    \/ \E arg \in {NoUrl, OtherUrl} : connectWith(arg)
    \/ \E mode \in CloseModes : disconnect(mode)
    \/ \E s \in SocketIds : onopen(s)
    \/ \E s \in SocketIds : onerror(s)
    \/ \E s \in SocketIds : onclose(s)

SpecEndpoint == Init /\ [][EndpointNext]_vars

\* The host's clock runs and its event loop runs every timer callback that
\* is due; sockets and the application are not obliged to do anything.
SpecConnLive ==
    /\ SpecConn
    /\ WF_vars(tick)
    /\ WF_vars(\E i \in 1..Len(timers) : reconnectTimer(i))

\* One feed: a socket that opens and delivers messages, and the frame
\* callbacks of the store.
FeedNext ==
    \/ connect
    \/ \E s \in SocketIds : onopen(s)
    \/ \E s \in SocketIds : \E payload \in Payloads : onmessage(s, payload)
    \/ \E h \in rafCallbacks : flush(h)

SpecFeed == Init /\ [][FeedNext]_vars

\* The feed of the end-to-end scenario: a server whose snapshot holds the
\* entities A, B and C and whose updates carry one field of one entity.
ScenarioEntity(s) == [symbol |-> s, name |-> NameOf(s), price |-> 20, volume |-> 100]

ScenarioSnapshot == <<ScenarioEntity("A"), ScenarioEntity("B"), ScenarioEntity("C")>>

ScenarioDelta == [symbol |-> "B", price |-> 10]

ScenarioPayloads ==
    {[kind |-> "snapshot", stocks |-> ScenarioSnapshot],
     [kind |-> "update", deltas |-> <<ScenarioDelta>>],
     [kind |-> "update", deltas |-> <<[symbol |-> "C", volume |-> 200]>>],
     [kind |-> "update", deltas |-> <<[symbol |-> "D", price |-> 10]>>]}

ScenarioNext ==
    \/ connect
    \/ \E s \in SocketIds : onopen(s)
    \/ \E s \in SocketIds : \E payload \in ScenarioPayloads : onmessage(s, payload)
    \/ \E h \in rafCallbacks : flush(h)

SpecScenario == Init /\ [][ScenarioNext]_vars

ServerNext ==
    \/ \E c \in SessionIds : \E sendOk \in BOOLEAN : connection(c, sendOk)
    \/ \E c \in SessionIds : closing(c)
    \/ \E c \in SessionIds : sessionClose(c)
    \/ \E indices \in getRandomIndices(Len(serverStocks),
                                       numToUpdate(Len(serverStocks), updatePercentage)) :
         \E values \in [1..Len(indices) -> SimValues] :
           \E failed \in SUBSET OpenClients : generatorTick(indices, values, failed)

SpecServer == InitServer /\ [][ServerNext]_vars

\* The simulator over one entity that every tick samples, its values
\* computed from the draws by the arithmetic of simulateStockUpdate.
InitRanges == ClientInit /\ ServerInit([n |-> 1, tenths |-> 10]) /\ GenInit(0)

\* A tick whose simulateStockUpdate calls make the given draws.
rangeTick(indices, draws) ==
    generatorTick(indices,
                  [k \in 1..Len(indices) |->
                      simulatedValue(serverStocks[indices[k]], draws[k])],
                  {})

\* The value JSON.parse returns for the text null
JSON_NULL == MAX_VALUE + 3

\* The fields of an entity or a delta that hold numbers
NumberFields ==
    {"price", "changePercent", "volume", "momentumScore", "openPrice", "volatility"}

\* JSON.stringify of a number, read back by JSON.parse: a finite number is
\* written with the digits that give it back; Infinity, -Infinity and NaN
\* are written as null.
jsonNumber(x) == IF isFinite(x) THEN x ELSE JSON_NULL

\* JSON.stringify of an entity or a delta, read back by JSON.parse
jsonObject(r) ==
    [f \in DOMAIN r |-> IF f \in NumberFields THEN jsonNumber(r[f]) ELSE r[f]]

\* JSON.stringify of a server message, as the client's socket delivers it
\* in event.data and JSON.parse reads it.
serialize(msg) ==
    CASE msg.type = "snapshot" ->
            [kind |-> "snapshot",
             stocks |-> [i \in 1..Len(msg.stocks) |-> jsonObject(msg.stocks[i])]]
      [] msg.type = "update"   ->
            [kind |-> "update",
             deltas |-> [k \in 1..Len(msg.deltas) |-> jsonObject(msg.deltas[k])]]
      [] OTHER                 -> [kind |-> "other"]

\* The message the server has sent to its session and the client has not
\* yet received.
InFlight == lastSend.delivered # {}

\* The server accepts the transport the client is opening, as session 1.
syncAccept ==
    /\ ~InFlight
    /\ \E s \in SocketIds : sockets[s] = "CONNECTING"
    /\ connection(1, TRUE)

\* A tick of the simulator once the preceding message has arrived.
syncTick(indices, values) ==
    /\ ~InFlight
    /\ generatorTick(indices, values, {})

\* The client's socket delivers the message in flight: a message event.
deliver(s) ==
    /\ InFlight
    /\ s = ws /\ sockets[s] = "OPEN"
    /\ handleMessage(s, serialize(lastSend.msg))
    /\ lastSend' = [lastSend EXCEPT !.delivered = {}]
    /\ UNCHANGED <<serverStocks, updatePercentage, clients, marketSimulator, simVars, lastBeat>>
    /\ UNCHANGED genVars

\* One client and the server it is connected to; the messages of the session
\* arrive in the order sent, each before the next is sent.
SyncNext ==
    \/ connect
    \/ \E s \in SocketIds : onopen(s)
    \/ syncAccept
    \/ \E indices \in getRandomIndices(Len(serverStocks),
                                       numToUpdate(Len(serverStocks), updatePercentage)) :
         \E values \in [1..Len(indices) -> SimValues] : syncTick(indices, values)
    \/ \E s \in SocketIds : deliver(s)
    \/ \E h \in rafCallbacks : flush(h)

SpecSync == InitServer /\ [][SyncNext]_vars

\* The draws in which the volume rises
RisingDraws == { d \in SimDraws : d.volumeChange > 0 }

\* A tick of the simulator, its values computed from the draws, once the
\* preceding message has arrived.
refineTick(indices, draws) ==
    /\ ~InFlight
    /\ rangeTick(indices, draws)

\* One client and the server it is connected to, the server's values
\* computed by the arithmetic of simulateStockUpdate; the messages of the
\* session arrive in the order sent, each before the next is sent.
RefineNext ==
    \/ connect
    \/ \E s \in SocketIds : onopen(s)
    \/ syncAccept
    \/ \E indices \in getRandomIndices(Len(serverStocks),
                                       numToUpdate(Len(serverStocks), updatePercentage)) :
         \E draws \in [1..Len(indices) -> RisingDraws] : refineTick(indices, draws)
    \/ \E s \in SocketIds : deliver(s)
    \/ \E h \in rafCallbacks : flush(h)

SpecRefine == InitRanges /\ [][RefineNext]_vars

\* The sessions and the heartbeat timer alone: the generator does not read
\* or write isAlive and the heartbeat does not touch the entities.
InitHeartbeat == ClientInit /\ ServerInit([n |-> 2, tenths |-> 5]) /\ GenInit(0)

HeartbeatNext ==
    \/ \E c \in SessionIds : \E sendOk \in BOOLEAN : connection(c, sendOk)
    \/ \E c \in SessionIds : closing(c)
    \/ \E c \in SessionIds : sessionClose(c)
    \/ heartbeat
    \/ \E c \in SessionIds : pong(c)

SpecHeartbeat == InitHeartbeat /\ [][HeartbeatNext]_vars

\* The server with every way a session ends: the close and error events of
\* a session, the heartbeat and the pongs, and the generator ticks that the
\* remaining sessions are sent.
TeardownNext ==
    \/ \E c \in SessionIds : \E sendOk \in BOOLEAN : connection(c, sendOk)
    \/ \E c \in SessionIds : closing(c)
    \/ \E c \in SessionIds : sessionError(c)
    \/ \E c \in SessionIds : sessionClose(c)
    \/ heartbeat
    \/ \E c \in SessionIds : pong(c)
    \/ \E indices \in getRandomIndices(Len(serverStocks),
                                       numToUpdate(Len(serverStocks), updatePercentage)) :
         \E values \in [1..Len(indices) -> SimValues] :
           \E failed \in SUBSET OpenClients : generatorTick(indices, values, failed)

SpecTeardown == InitHeartbeat /\ [][TeardownNext]_vars

RangesNext ==
    \/ start
    \/ stop
    \/ \E indices \in getRandomIndices(Len(serverStocks),
                                       numToUpdate(Len(serverStocks), updatePercentage)) :
         \E draws \in [1..Len(indices) -> SimDraws] : rangeTick(indices, draws)

SpecRanges == InitRanges /\ [][RangesNext]_vars

\* A MarketSimulator on its own, as its unit tests drive it: start() and
\* stop() in any order, and the ticks of its interval timers.
SimulatorNext ==
    \/ start
    \/ stop
    \/ \E indices \in getRandomIndices(Len(serverStocks),
                                       numToUpdate(Len(serverStocks), updatePercentage)) :
         \E values \in [1..Len(indices) -> SimValues] : generatorTick(indices, values, {})

SpecSimulator == InitServer /\ [][SimulatorNext]_vars

\* A call of generateStocks with no argument or a count.
InitGenerate ==
    /\ ClientInit
    /\ ServerInit([n |-> 0, tenths |-> 0])
    /\ \E arg \in {NoCount} \cup (0..MaxCount) : GenInit(arg)

GenerateNext == \E symbol \in AllSymbols : generateNext(symbol)

SpecGenerate == InitGenerate /\ [][GenerateNext]_vars

--------------------------------------------------------------------------
(* Properties of the update scheduler and the store *)

\* C1: at most one flush is pending at any time: the host holds at most one
\* frame callback, and it holds one exactly when rafId is set, so updateStocks
\* calls between two flushes schedule one flush in all.
C1_AtMostOneFlushPending ==
    /\ Cardinality(rafCallbacks) <= 1
    /\ rafCallbacks = IF rafId = NULL THEN {} ELSE {rafId}

\* Several updateStocks calls were made since the last flush and one frame
\* callback is pending.
C1_Witness ==
    /\ lastOp = "updateStocks"
    /\ Len(batches) >= 2
    /\ Cardinality(rafCallbacks) = 1

\* updateStocksImmediate called on each batch in turn, in arrival order.
RECURSIVE applyOneAtATime(_, _)
applyOneAtATime(m, bs) ==
    IF bs = <<>> THEN m
    ELSE applyOneAtATime(mergeUpdates(m, Head(bs)), Tail(bs))

\* C2: the flush that follows K updateStocks calls leaves the stocks map that
\* K updateStocksImmediate calls, one per batch in arrival order, would leave.
C2_FlushEqualsOneAtATime ==
    [][lastOp' = "flush" => stocks' = applyOneAtATime(stocks, batches)]_vars

\* A flush has served two calls whose updates named symbols of the store.
C2_Witness ==
    /\ lastOp = "flush"
    /\ lastInfo.calls >= 2
    /\ lastInfo.known

\* The value of field f of entity s after the updates: that of the last
\* update for s that carries f, else the old one.
LastWriters(updates, s, f) ==
    { i \in 1..Len(updates) : updates[i].symbol = s /\ f \in DOMAIN updates[i] }

SetMax(S) == CHOOSE x \in S : \A y \in S : y <= x

FieldMerge(old, new, updates) ==
    \A s \in DOMAIN old :
        /\ s \in DOMAIN new
        /\ DOMAIN new[s] = DOMAIN old[s]
        /\ \A f \in DOMAIN old[s] :
              LET w == LastWriters(updates, s, f) IN
              new[s][f] = IF w = {} THEN old[s][f] ELSE updates[SetMax(w)][f]

\* C3: updateStocksImmediate, called directly or by the flush, changes on an
\* entity only the fields present in an update for its symbol (to the value
\* of the last such update); every other field and entity keeps its value.
C3_FieldLevelMerge ==
    [][ /\ lastOp' = "updateStocksImmediate" => FieldMerge(stocks, stocks', lastArg')
        /\ lastOp' = "flush" => FieldMerge(stocks, stocks', updateQueue) ]_vars

\* A direct call applied an update that carries a price and no volume to an
\* entity of the store: the price is the update's, the volume a snapshot's.
C3_Witness ==
    /\ lastOp = "updateStocksImmediate"
    /\ Len(lastArg) = 1
    /\ DOMAIN lastArg[1] = {"symbol", "price"}
    /\ lastArg[1].symbol \in DOMAIN stocks
    /\ stocks[lastArg[1].symbol].price = lastArg[1].price
    /\ stocks[lastArg[1].symbol].price \notin { e.price : e \in SnapshotData }
    /\ stocks[lastArg[1].symbol].volume \in { e.volume : e \in SnapshotData }

\* C4: applying updates never creates or removes entities: the key set after
\* updateStocksImmediate or a flush is the key set before it.
C4_KeySetUnchanged ==
    [][lastOp' \in {"updateStocksImmediate", "flush"} =>
          DOMAIN stocks' = DOMAIN stocks]_vars

\* An update for a symbol the store does not hold was applied.
C4_Witness ==
    /\ lastOp \in {"updateStocksImmediate", "flush"}
    /\ lastInfo.unknown

UniqueSymbols(list) ==
    \A i, j \in 1..Len(list) : list[i].symbol = list[j].symbol => i = j

\* C5: after setStocks(S), S with unique symbols, the key set is the symbols
\* of S and every entity is its entry in S, whatever the store held before.
C5_SnapshotReplaces ==
    (lastOp = "setStocks" /\ UniqueSymbols(lastArg)) =>
        /\ DOMAIN stocks = { lastArg[i].symbol : i \in 1..Len(lastArg) }
        /\ \A i \in 1..Len(lastArg) : stocks[lastArg[i].symbol] = lastArg[i]

\* A snapshot with unique symbols dropped a symbol of the previous state
\* and brought entities.
C5_Witness ==
    /\ lastOp = "setStocks"
    /\ UniqueSymbols(lastArg)
    /\ lastArg # <<>>
    /\ lastInfo.dropped


--------------------------------------------------------------------------
(* Properties of the connection manager *)

\* C6: connect() while status is 'connecting' or 'connected' is a no-op: no
\* socket is created and ws, status, reconnectAttempts and shouldReconnect
\* keep their values, whether the application or a reconnect timer calls it.
C6_ConnectIdempotent ==
    [][(lastOp' \in {"connect", "reconnectTimer"}
          /\ status \in {"connecting", "connected"}) =>
          UNCHANGED <<ws, status, reconnectAttempts, shouldReconnect, sockets>>]_vars

\* connect() returned with the status still 'connected'.
C6_Witness == lastOp = "connect" /\ status = "connected" /\ ws # NULL

\* C7: at most one socket created by connect() is connecting or open.
C7_AtMostOneTransport == Cardinality(Active) <= 1

\* C8: from a disconnect() until the application's next connect(), no step
\* creates a socket: not the close event of the socket being closed, nor a
\* reconnect timer that was pending.
C8_NoReconnectAfterDisconnect == [][(manual /\ manual') => ~Created]_vars

\* A reconnect timer ran after a disconnect() and before any connect().
C8_Witness == manual /\ lastOp = "reconnectTimer"

\* The delays the claim lists, by attempt number.
BackoffTable(k) ==
    CASE k = 1 -> 3000
      [] k = 2 -> 6000
      [] k = 3 -> 12000
      [] k = 4 -> 24000
      [] OTHER -> 30000

\* C9: a close with auto-reconnect enabled schedules the reconnect after
\* min(3000 * 2^(k-1), 30000) ms, k being reconnectAttempts after the close.
C9_BackoffDelay ==
    (lastOp = "onclose" /\ shouldReconnect) =>
        /\ reconnectAttempts >= 1
        /\ timers # <<>>
        /\ timers[Len(timers)].remaining = BackoffTable(reconnectAttempts)

\* A close scheduled the reconnect of an attempt at the cap.
C9_Witness == lastOp = "onclose" /\ shouldReconnect /\ reconnectAttempts >= 5

\* C10: after an unexpected close with reconnectAttempts 0 and no call by the
\* application since, no socket is created before 3000 ms have passed, and
\* once the timers due at 3000 ms have run exactly one has been created.
C10_ReconnectAfterBaseDelay ==
    sinceClose.open =>
        /\ sinceClose.elapsed < BASE_RECONNECT_DELAY => sinceClose.attempts = 0
        /\ (sinceClose.elapsed = BASE_RECONNECT_DELAY
              /\ \A i \in 1..Len(timers) : ~Due(i)) => sinceClose.attempts = 1


\* C11: every close event met with auto-reconnect enabled raises
\* reconnectAttempts by exactly one, every open event resets it to zero, and
\* the only steps that lower it are open events and disconnect().
C11_AttemptCounter ==
    [][ /\ (lastOp' = "onclose" /\ shouldReconnect) =>
               reconnectAttempts' = reconnectAttempts + 1
        /\ lastOp' = "onopen" => reconnectAttempts' = 0
        /\ reconnectAttempts' < reconnectAttempts =>
               lastOp' \in {"onopen", "disconnect"} ]_vars

\* An open event reset the counter after two closes had raised it to two
\* (the timer of the second close is pending, no disconnect() since).
C11_Witness ==
    /\ lastOp = "onopen"
    /\ reconnectAttempts = 0
    /\ status = "connected"
    /\ \E i \in 1..Len(timers) :
          timers[i].remaining = reconnectDelay(2) /\ ~timers[i].stale

\* The reconnect timer that runs in the next reconnectTimer step.
FiringTimer == CHOOSE i \in 1..Len(timers) : Due(i) /\ \A j \in 1..(i - 1) : ~Due(j)

\* C12: a reconnect timer set before a disconnect() call never creates a
\* socket, also when connect() was called again before its deadline.
C12_DisconnectCancelsTimer ==
    [][(lastOp' = "reconnectTimer" /\ timers[FiringTimer].stale) => ~Created]_vars

\* C13: connect() moves 'disconnected' to 'connecting', an open event moves
\* the status to 'connected', a close event moves it to 'disconnected' and
\* clears ws, and the status turns 'connected' only in the open event of a
\* socket that connect() created.
C13_StatusStateMachine ==
    [][ /\ (lastOp' \in {"connect", "reconnectTimer"} /\ status = "disconnected"
              /\ shouldReconnect') => (status' = "connecting" /\ Created)
        /\ lastOp' = "onopen" => status' = "connected"
        /\ lastOp' = "onclose" => (status' = "disconnected" /\ ws' = NULL)
        /\ (status' = "connected" /\ status # "connected") =>
              /\ lastOp' = "onopen"
              /\ \E s \in SocketIds :
                    sockets[s] = "CONNECTING" /\ sockets'[s] = "OPEN" ]_vars

\* An open event of the socket held in ws made the status 'connected'.
C13_Witness ==
    /\ lastOp = "onopen"
    /\ status = "connected"
    /\ ws # NULL /\ sockets[ws] = "OPEN"

\* C14: an error event sets the status to 'error' and leaves the socket, ws,
\* reconnectAttempts and shouldReconnect alone; a close event met in status
\* 'error' with auto-reconnect enabled still sets a reconnect timer.
C14_ErrorThenClose ==
    [][ /\ lastOp' = "onerror" =>
              /\ status' = "error"
              /\ UNCHANGED <<ws, reconnectAttempts, shouldReconnect, sockets, timers>>
        /\ (lastOp' = "onclose" /\ status = "error" /\ shouldReconnect) =>
              /\ Len(timers') = Len(timers) + 1
              /\ timers'[Len(timers')].remaining = reconnectDelay(reconnectAttempts') ]_vars

\* An error event left the status 'error' with the socket still open, held
\* in ws, and auto-reconnect enabled; the socket's close event can follow.
C14_Witness ==
    /\ lastOp = "onerror"
    /\ status = "error"
    /\ shouldReconnect
    /\ ws # NULL /\ sockets[ws] = "OPEN"
    /\ reconnectAttempts < MaxAttempts /\ Len(timers) < MaxTimers

--------------------------------------------------------------------------
(* Properties of the message handler *)

\* C15: a message that JSON.parse rejects is dropped: status, ws,
\* reconnectAttempts, shouldReconnect, the socket, the pending queue with its
\* scheduled flush and the stocks all keep their values; every message that
\* decodes is processed, also right after a dropped one: a snapshot replaces
\* the stocks and an update is queued with a flush scheduled.
C15_MalformedMessageDropped ==
    [][ lastOp' = "onmessage" =>
          /\ lastArg'[2] = "garbage" =>
                UNCHANGED <<connVars, stocks, lastUpdated, updateQueue, rafId, rafCallbacks>>
          /\ lastArg'[2] = "snapshot" =>
                /\ lastUpdated' = now
                /\ \E list \in Snapshots : stocks' = buildStockMap(EmptyMap, list)
          /\ lastArg'[2] = "update" =>
                /\ rafId' # NULL /\ rafCallbacks' = {rafId'}
                /\ \E updates \in UpdateBatches : updateQueue' = updateQueue \o updates ]_vars

\* A snapshot was processed right after a message of the same socket was
\* dropped, with the connection still open.
C15_Witness ==
    /\ lastOp = "onmessage"
    /\ lastArg[2] = "snapshot" /\ lastArg[3]
    /\ stocks # EmptyMap
    /\ status = "connected" /\ ws = lastArg[1] /\ sockets[ws] = "OPEN"


\* After a connect() call, by the application or by a reconnect timer, that
\* created a socket the status is 'connecting'.
CreatedByLast ==
    /\ lastOp \in {"connect", "reconnectTimer"}
    /\ status = "connecting"

\* C16: every close event met with auto-reconnect enabled is followed by a
\* connect() call that leaves the status 'connecting', as every call that
\* creates a socket does, unless auto-reconnect is disabled first (or the
\* model has no socket id left to hand out).
C16_ReconnectNeverGivesUp ==
    (lastOp = "onclose" /\ shouldReconnect) ~>
        \/ CreatedByLast
        \/ ~shouldReconnect
        \/ \A s \in SocketIds : sockets[s] # "CLOSED"


--------------------------------------------------------------------------
(* Properties of the server *)

\* C17: the first message sent to a session is the snapshot, never an update.
C17_FirstMessageIsSnapshot ==
    \A c \in SessionIds : clients[c].first # "update"

\* The symbols of the server's entity store.
ServerKeys == { serverStocks[i].symbol : i \in 1..Len(serverStocks) }

C19_SendFailureIsolated ==
    (lastOp = "generatorTick" /\ lastSend.msg.type = "update") =>
        /\ lastSend.delivered = OpenClients \ lastSend.failed
        /\ marketSimulator = "running"

\* A tick in which one send threw and another session was sent the update.
C19_Witness ==
    /\ lastOp = "generatorTick"
    /\ lastSend.failed # {}
    /\ \E c \in lastSend.delivered : \E f \in lastSend.failed : f < c

\* The deltas the last generator tick produced.
LastDeltas == IF lastSend.msg.type = "update" THEN lastSend.msg.deltas ELSE <<>>

\* floor(n * tenths / 10)
FloorOfFraction(n, tenths) ==
    CHOOSE m \in 0..n : 10 * m <= n * tenths /\ n * tenths < 10 * (m + 1)

\* C20: a generator tick over N entities with fraction f produces exactly
\* floor(N * f) deltas (200 for N = 2000 and f = 0.1), their symbols are
\* pairwise distinct and each is the symbol of an entity sampled in the tick.
C20_DeltaCount ==
    /\ numToUpdate(2000, 1) = 200
    /\ lastOp = "generatorTick" =>
          /\ Len(LastDeltas) = FloorOfFraction(Len(serverStocks), updatePercentage)
          /\ \A i, j \in 1..Len(LastDeltas) :
                LastDeltas[i].symbol = LastDeltas[j].symbol => i = j
          /\ Len(lastSend.sample) = Len(LastDeltas)
          /\ \A k \in 1..Len(LastDeltas) :
                LastDeltas[k].symbol = serverStocks[lastSend.sample[k]].symbol

\* A tick over three entities with fraction 0.7 produced two deltas.
C20_Witness ==
    /\ lastOp = "generatorTick"
    /\ Len(serverStocks) = 3
    /\ Len(LastDeltas) = 2

\* The indices a tick sampled.
Sampled(sample) == { sample[k] : k \in 1..Len(sample) }

\* C21: an entity not sampled in a generator tick keeps all its values in the
\* server's array and no delta of that tick names it; every delta a tick emits
\* is for an entity the tick sampled and wrote, and carries the written fields.
C21_UnsampledUntouched ==
    [][ lastOp' = "generatorTick" =>
          /\ \A i \in 1..Len(serverStocks) :
                i \notin Sampled(lastSend'.sample) =>
                   /\ serverStocks'[i] = serverStocks[i]
                   /\ \A k \in 1..Len(LastDeltas') :
                         LastDeltas'[k].symbol # serverStocks[i].symbol
          /\ \A k \in 1..Len(LastDeltas') :
                /\ \E i \in Sampled(lastSend'.sample) :
                      LastDeltas'[k] = deltaOf(serverStocks'[i])
                /\ DOMAIN LastDeltas'[k] \ {"symbol"} # {} ]_vars

\* A tick emitted a delta and left alone an entity that an earlier tick had
\* changed.
C21_Witness ==
    /\ lastOp = "generatorTick"
    /\ Len(LastDeltas) >= 1
    /\ \E i \in 1..Len(serverStocks) :
          /\ i \notin Sampled(lastSend.sample)
          /\ serverStocks[i].price = 20

\* C22: after any sequence of connection accepts and session closes (and of
\* ticks, heartbeats and pongs between them) the market simulator exists and
\* its interval timer is set exactly when wss.clients holds a session.
C22_RunningIffSessions ==
    /\ marketSimulator = "running" <=> wssClients # {}
    /\ intervals # {} <=> wssClients # {}
    /\ intervalId # NULL <=> wssClients # {}

\* The last session closed and the simulator, which had ticked, is stopped.
C22_Witness ==
    /\ lastOp = "sessionClose"
    /\ wssClients = {}
    /\ marketSimulator = "null" /\ intervals = {}
    /\ \E i \in 1..Len(serverStocks) : serverStocks[i].price = 20

\* C23: start() and stop() are idempotent: start() leaves exactly one interval
\* timer, the one there was when the simulator was running; stop() leaves
\* none; no other step sets or clears a timer; so at most one timer exists, and
\* it exists exactly when the last call that changed anything was start().
C23_StartStopIdempotent ==
    [][ /\ lastOp' = "start" =>
              /\ Cardinality(intervals') = 1
              /\ intervalId' \in intervals'
              /\ intervals # {} => UNCHANGED <<intervalId, intervals>>
        /\ lastOp' = "stop" =>
              /\ intervals' = {}
              /\ intervalId' = NULL
        /\ lastOp' \notin {"start", "stop"} => UNCHANGED <<intervalId, intervals>> ]_vars

\* start() was called on a running simulator after its timer had ticked.
C23_Witness ==
    /\ lastOp = "start"
    /\ lastArg = <<TRUE>>
    /\ Cardinality(intervals) = 1
    /\ lastSend.sample # <<>>

\* C24: a heartbeat tick terminates every session of wss.clients that was
\* pinged and has sent no pong since, and marks every other session not alive
\* and pings it; so a session that has answered its last ping (or was never
\* pinged) is not terminated by the tick.
C24_HeartbeatReaps ==
    [][ lastOp' = "heartbeat" =>
          \A c \in wssClients :
             /\ clients[c].pinged =>
                   /\ c \in lastBeat'.terminated
                   /\ c \notin lastBeat'.pinged
                   /\ clients'[c].readyState = "CLOSING"
             /\ ~clients[c].pinged =>
                   /\ c \in lastBeat'.pinged
                   /\ c \notin lastBeat'.terminated
                   /\ clients'[c].isAlive = FALSE
                   /\ clients'[c].readyState = clients[c].readyState ]_vars

\* A tick terminated one session and pinged another that had answered.
C24_Witness ==
    /\ lastOp = "heartbeat"
    /\ lastBeat.terminated # {}
    /\ \E c \in lastBeat.pinged : clients[c].readyState = "OPEN"

\* The fields a delta may change.
FastFields == {"price", "changePercent", "volume", "momentumScore"}

\* Entity new has every field of entity old, with the same value for every
\* field that is not a fast-changing one.
SlowFieldsKept(old, new) ==
    /\ DOMAIN new = DOMAIN old
    /\ \A f \in DOMAIN old \ FastFields : new[f] = old[f]

\* C25: no step changes an identity field: a generator tick leaves symbol,
\* name, sector, openPrice and volatility of every entity of the server's
\* array as they were, and the flush that applies the server's deltas on the
\* client leaves symbol, name and sector of every entity of the store as they
\* were; only price, changePercent, volume and momentumScore change.
C25_IdentityFieldsFixed ==
    [][ /\ Len(serverStocks') = Len(serverStocks)
        /\ \A i \in 1..Len(serverStocks) :
              /\ SlowFieldsKept(serverStocks[i], serverStocks'[i])
              /\ {"symbol", "name", "sector", "openPrice", "volatility"}
                     \subseteq DOMAIN serverStocks[i] \ FastFields
        /\ lastOp' = "flush" =>
              /\ DOMAIN stocks' = DOMAIN stocks
              /\ \A k \in DOMAIN stocks :
                    /\ SlowFieldsKept(stocks[k], stocks'[k])
                    /\ stocks'[k].symbol = k ]_vars

\* A flush applied a delta of the server to an entity of the client's store:
\* the price is the tick's, name and sector are the snapshot's.
C25_Witness ==
    /\ lastOp = "flush"
    /\ lastInfo.known
    /\ \E k \in DOMAIN stocks :
          /\ stocks[k].price = 20
          /\ stocks[k].name = NameOf(k)
          /\ stocks[k].sector = "Energy"

\* The operations that write the store: setStocks, updateStocksImmediate and
\* the flush, which calls updateStocksImmediate.
Mutations == {"setStocks", "updateStocksImmediate", "flush"}

\* C26: lastUpdated is null as long as no operation has written the store,
\* every setStocks and updateStocksImmediate call (the flush's included) sets
\* it to the time of the call, and no other step writes it.
C26_LastUpdatedStamp ==
    [][ /\ lastOp = "init" => lastUpdated = NULL
        /\ lastOp' \in Mutations => lastUpdated' = now
        /\ lastOp' \notin Mutations => lastUpdated' = lastUpdated ]_vars

\* An updateStocksImmediate call stamped the store with a later time than the
\* snapshot before it had.
C26_Witness ==
    /\ lastOp = "updateStocksImmediate"
    /\ lastInfo.known
    /\ lastUpdated = 2
    /\ now = 2

\* C27: on a connection opened by connect(), a snapshot message is applied in
\* the step that receives it (the store holds exactly A, B and C as sent), an
\* update message changes nothing but the queue and schedules the flush, and
\* the flush of the queued delta {symbol: B, price: 10} over the snapshot
\* leaves B.price = 10, every other field of B, and A and C, as they were, and
\* the key set {A, B, C}.
C27_SnapshotThenDelta ==
    [][ /\ (lastOp' = "onmessage" /\ lastArg'[2] = "snapshot") =>
              /\ DOMAIN stocks' = {"A", "B", "C"}
              /\ \A k \in DOMAIN stocks' : stocks'[k] = ScenarioEntity(k)
              /\ UNCHANGED <<updateQueue, rafId, rafCallbacks>>
        /\ (lastOp' = "onmessage" /\ lastArg'[2] = "update") =>
              /\ stocks' = stocks
              /\ Len(updateQueue') = Len(updateQueue) + 1
              /\ SubSeq(updateQueue', 1, Len(updateQueue)) = updateQueue
              /\ rafId' # NULL /\ rafId' \in rafCallbacks'
        /\ (lastOp' = "flush" /\ updateQueue = <<ScenarioDelta>>
              /\ stocks = buildStockMap(EmptyMap, ScenarioSnapshot)) =>
              /\ stocks'["B"].price = 10
              /\ stocks'["B"] = [ScenarioEntity("B") EXCEPT !.price = 10]
              /\ stocks'["A"] = stocks["A"]
              /\ stocks'["C"] = stocks["C"]
              /\ DOMAIN stocks' = {"A", "B", "C"} ]_vars

\* The scenario has run: on the open connection the flush applied the one
\* queued delta for B to the snapshot's entities.
C27_Witness ==
    /\ lastOp = "flush"
    /\ lastInfo.calls = 1 /\ lastInfo.known
    /\ status = "connected" /\ ws # NULL /\ sockets[ws] = "OPEN"
    /\ DOMAIN stocks = {"A", "B", "C"}
    /\ stocks["B"] = [ScenarioEntity("B") EXCEPT !.price = 10]
    /\ stocks["A"] = ScenarioEntity("A")
    /\ stocks["C"] = ScenarioEntity("C")

\* The call has left the for-loop.
Returned == genI >= countOf(genArg)

\* C28: generateStocks(n) returns exactly n entities, 2000 when called without
\* a count; the symbols of the array are pairwise distinct at every point of
\* the loop, so the map built from it has one key per entity.
C28_ExactlyNUnique ==
    /\ countOf(NoCount) = 2000
    /\ UniqueSymbols(generated)
    /\ existingSymbols = { generated[i].symbol : i \in 1..Len(generated) }
    /\ Cardinality(DOMAIN buildStockMap(EmptyMap, generated)) = Len(generated)
    /\ Returned => Len(generated) = countOf(genArg)

\* A call returned more entities than there are well-known symbols.
C28_Witness ==
    /\ Returned
    /\ genArg = MaxCount
    /\ Len(generated) > Len(WELL_KNOWN_SYMBOLS) + 1

\* C29: disconnect(), whatever the state it is called in, closes the socket
\* held in ws if there is one (close() leaves it closing or closed) and no
\* other, and returns with status 'disconnected', ws null, reconnectAttempts 0
\* and auto-reconnect disabled.
C29_DisconnectResets ==
    [][ lastOp' = "disconnect" =>
          /\ status' = "disconnected"
          /\ ws' = NULL
          /\ reconnectAttempts' = 0
          /\ shouldReconnect' = FALSE
          /\ \A s \in SocketIds :
                IF s = ws
                THEN sockets'[s] \in {"CLOSING", "CLOSED"}
                ELSE sockets'[s] = sockets[s] ]_vars

\* disconnect() closed a socket, which is now closing, while the timer set by
\* the second close in a row was pending.
C29_Witness ==
    /\ lastOp = "disconnect"
    /\ \E s \in SocketIds : sockets[s] = "CLOSING"
    /\ \E i \in 1..Len(timers) : timers[i].remaining = reconnectDelay(2)
    /\ status = "disconnected" /\ reconnectAttempts = 0


\* C30: connect() called while status is 'disconnected' or 'error' creates
\* exactly one new transport, to the endpoint given in the call or to
\* ws://localhost:8080 when the call names none, leaves every other transport
\* as it was, sets status to 'connecting' and sets shouldReconnect to true.
C30_ConnectCreatesOne ==
    [][(lastOp' = "connect" /\ status \in {"disconnected", "error"}) =>
        /\ \E s \in SocketIds :
              /\ sockets[s] = "CLOSED" /\ sockets'[s] = "CONNECTING"
              /\ urls'[s] = IF lastArg'[1] = NoUrl THEN "ws://localhost:8080"
                                                  ELSE lastArg'[1]
              /\ ws' = s
              /\ \A r \in SocketIds \ {s} :
                    sockets'[r] = sockets[r] /\ urls'[r] = urls[r]
        /\ status' = "connecting"
        /\ shouldReconnect' = TRUE]_vars

\* connect(OtherUrl) was called after a disconnect() whose socket is still
\* closing: a new socket to that endpoint, auto-reconnect enabled again.
C30_Witness ==
    /\ lastOp = "connect" /\ lastArg = <<OtherUrl>>
    /\ status = "connecting" /\ shouldReconnect
    /\ \E s \in SocketIds :
          /\ ws = s /\ sockets[s] = "CONNECTING" /\ urls[s] = OtherUrl
          /\ \E r \in SocketIds \ {s} :
                sockets[r] = "CLOSING" /\ urls[r] = DEFAULT_WS_URL


--------------------------------------------------------------------------
(* Properties of the flush, of session teardown and of the generated values *)

\* C31: a flush applies the whole pending queue to the store in one step,
\* then leaves the queue empty and rafId null, so that no later flush
\* applies those deltas again; an updateStocks call appends its deltas to
\* the queue and no other step touches the queue; and while the queue holds
\* a delta a frame callback is pending. Every enqueued delta is therefore
\* applied by exactly one flush, the next one.
C31_FlushAppliesQueueOnce ==
    [][/\ lastOp' = "flush" =>
            /\ stocks' = mergeUpdates(stocks, updateQueue)
            /\ updateQueue' = <<>>
            /\ rafId' = NULL
       /\ lastOp' = "updateStocks" =>
            /\ updateQueue' = updateQueue \o batches'[Len(batches')]
            /\ stocks' = stocks
       /\ lastOp' \notin {"flush", "updateStocks"} => updateQueue' = updateQueue
       /\ updateQueue' # <<>> => rafId' # NULL /\ rafCallbacks' = {rafId'}]_vars

\* A flush has applied a queue of at least two deltas, one for a symbol of
\* the store and one for a symbol it does not hold, and nothing is pending.
C31_Witness ==
    /\ lastOp = "flush"
    /\ lastInfo.known /\ lastInfo.unknown
    /\ updateQueue = <<>> /\ rafId = NULL /\ rafCallbacks = {}


\* What a heartbeat makes of a session it does not terminate.
Pinged(session) ==
    IF session.readyState = "ABSENT" THEN session
    ELSE [session EXCEPT !.isAlive = FALSE, !.pinged = TRUE]

\* The sessions the step destroys: the one whose close or error event is
\* handled, or those the heartbeat terminates.
Destroyed ==
    IF lastOp' = "heartbeat" THEN lastBeat'.terminated
    ELSE IF lastOp' \in {"sessionClose", "sessionError"}
    THEN { c \in SessionIds : clients'[c] # clients[c] }
    ELSE {}

\* C32: a step that destroys a session (its close event, its error event, or
\* its termination by the heartbeat) destroys that session alone: every other
\* session keeps its readyState and its isAlive flag (in a heartbeat, it
\* gets the flag the ping of that same heartbeat gives it), the entity store
\* is not modified, and while a session remains the simulator's timer stays
\* set, so that the ticks keep sending the updates to the open sessions.
C32_TeardownIsolated ==
    [][lastOp' \in {"sessionClose", "sessionError", "heartbeat"} =>
        /\ lastOp' # "heartbeat" => Cardinality(Destroyed) <= 1
        /\ \A d \in SessionIds \ Destroyed :
              clients'[d] = IF lastOp' = "heartbeat" THEN Pinged(clients[d])
                            ELSE clients[d]
        /\ serverStocks' = serverStocks
        /\ (\E d \in SessionIds : clients'[d].readyState # "ABSENT") =>
              /\ marketSimulator' = "running"
              /\ intervals' = intervals /\ intervals' # {}]_vars

\* A session has just been removed while another one, which was sent the
\* snapshot, is open and alive; the simulator's timer is set and its ticks
\* have written the entity store.
C32_Witness ==
    /\ lastOp = "sessionClose"
    /\ \E d \in OpenClients : clients[d].isAlive /\ clients[d].first = "snapshot"
    /\ intervals # {}
    /\ \E i \in 1..Len(serverStocks) : serverStocks[i].price = 20


\* x is a number of the interval [lo, hi]; Infinity bounds no interval from
\* above unless hi is Infinity, and NaN is in none.
Within(x, lo, hi) == ~isNaN(x) /\ lo <= x /\ x <= hi

\* C33: after any sequence of generator ticks every entity of the entity
\* store has a volume >= 0 and a momentumScore within [0, 100], and so has
\* every delta of the last tick.
C33_VolumeAndScoreInRange ==
    /\ \A i \in 1..Len(serverStocks) :
          /\ Within(serverStocks[i].volume, 0, Infinity)
          /\ Within(serverStocks[i].momentumScore, 0, 100)
    /\ \A k \in 1..Len(LastDeltas) :
          /\ Within(LastDeltas[k].volume, 0, Infinity)
          /\ Within(LastDeltas[k].momentumScore, 0, 100)

\* A tick in which Math.random() returned 0 has made the price infinite and
\* has left the score at the end of its range.
C33_Witness ==
    /\ lastOp = "generatorTick"
    /\ \E k \in 1..Len(LastDeltas) :
          /\ LastDeltas[k].price = Infinity
          /\ LastDeltas[k].momentumScore = 100
          /\ LastDeltas[k].volume < 100


\* C34: when a flush has run on the client and no message of the server is
\* in flight (the client has applied the snapshot and every update sent
\* since), the client's store holds, for every entity of the server, the
\* price, changePercent, volume and momentumScore of the server's store.
C34_ClientMatchesServer ==
    (lastOp = "flush" /\ ~InFlight) =>
        \A i \in 1..Len(serverStocks) :
           /\ serverStocks[i].symbol \in DOMAIN stocks
           /\ \A f \in FastFields :
                 stocks[serverStocks[i].symbol][f] = serverStocks[i][f]


\* C35: setStocks leaves the pending queue and the scheduled flush as they
\* are, and the flush that follows a setStocks call applies the deltas that
\* were enqueued before it on top of the map built from the snapshot.
C35_SnapshotKeepsQueue ==
    [][/\ lastOp' = "setStocks" =>
            /\ updateQueue' = updateQueue
            /\ rafId' = rafId /\ rafCallbacks' = rafCallbacks
       /\ (lastOp = "setStocks" /\ lastOp' = "flush") =>
            stocks' = mergeUpdates(buildStockMap(EmptyMap, lastArg), updateQueue)]_vars

\* A snapshot has been applied while a delta enqueued before it is pending,
\* for an entity of the snapshot and with another price than the snapshot's.
C35_Witness ==
    /\ lastOp = "setStocks"
    /\ rafId # NULL
    /\ \E i \in 1..Len(updateQueue) :
          /\ updateQueue[i].symbol \in DOMAIN stocks
          /\ "price" \in DOMAIN updateQueue[i]
          /\ updateQueue[i].price # stocks[updateQueue[i].symbol].price


--------------------------------------------------------------------------
(* Properties of the connection manager under superseded transports *)

\* C36: a close event of a socket that is not the one held in ws changes
\* neither status, ws nor reconnectAttempts and schedules no reconnect.
C36_SupersededCloseIgnored ==
    [][\A s \in SocketIds :
          (lastOp' = "onclose" /\ sockets[s] # "CLOSED" /\ sockets'[s] = "CLOSED"
             /\ ws # s) =>
                /\ status' = status /\ ws' = ws
                /\ reconnectAttempts' = reconnectAttempts
                /\ timers' = timers]_vars


\* C37: at most one reconnect timer is pending at any time.
C37_AtMostOneTimer == Len(timers) <= 1


--------------------------------------------------------------------------
(* Properties of the store under failing and empty batches *)

\* C38: every run of the frame callback leaves rafId null and the queue
\* empty, whether or not applying the queue has failed.
C38_FlushAlwaysClears ==
    [][lastOp' = "flush" => rafId' = NULL /\ updateQueue' = <<>>]_vars


\* C39: whenever the status is 'connected', ws holds a socket.
C39_ConnectedHoldsSocket == status = "connected" => ws # NULL

\* The open event of a socket has made the status 'connected' after the
\* close event of an earlier socket had cleared ws and set a reconnect
\* timer, which is still pending.
C39_Witness ==
    /\ lastOp = "onopen"
    /\ status = "connected" /\ ws # NULL
    /\ timers # <<>>
    /\ reconnectAttempts = 0


\* C40: an updateStocksImmediate call whose batch is empty or names only
\* symbols the store does not hold leaves every entity as it was, and yet
\* sets lastUpdated to the time of the call and passes a new Map to set().
C40_NoopBatchStillPublishes ==
    [][(lastOp' = "updateStocksImmediate"
          /\ \A i \in 1..Len(lastArg') : lastArg'[i].symbol \notin DOMAIN stocks) =>
            /\ stocks' = stocks
            /\ lastUpdated' = now
            /\ lastInfo'.published]_vars

\* A call with updates for unknown symbols only was made at time 2 on a
\* store that a snapshot had filled, and lastUpdated is the time of the call.
C40_Witness ==
    /\ lastOp = "updateStocksImmediate"
    /\ lastArg # <<>>
    /\ ~lastInfo.known
    /\ stocks # EmptyMap
    /\ lastUpdated = 2

==========================================================================
